---------------------------- MODULE Spec2Model ----------------------------
(***************************************************************************)
(* Model of formbar's configuration resolution (formbar/config.py) and of  *)
(* the field factory (formbar/fields.py).                                  *)
(*                                                                         *)
(* The XML document is a record with one sequence of elements per tag, in  *)
(* document order.  An attribute that is not set reads as None (what       *)
(* attrib.get returns); "" is an attribute set to the empty string.        *)
(***************************************************************************)
EXTENDS Integers, Sequences, FiniteSets, TLC

VARIABLES
    doc,          \* the parsed configuration: [entity, snippet, form]
    lookup,       \* the last Config.get_element call and its outcome
    initialized,  \* Form._initialized
    cache,        \* Form._fields (not assigned until __init__ assigns it)
    id2name,      \* Form._id2name
    stack,        \* the active get_fields frames, innermost last
    outcome,      \* how Form.__init__ ended: "running", "Form" or the error
    nextOid,      \* identity of the next config.Field object
    ret,          \* what the last get_fields call made on the built Form returned
    built,        \* history: Form._fields and _id2name as __init__ left them
    fc,           \* the last FieldFactory.create call: inputs and results
    fld,          \* a runtime fields.Field: its attributes and its last call
    col           \* a collection field's last option listing

lookupVars == <<lookup>>
formVars == <<initialized, cache, id2name, stack, outcome, nextOid, ret, built>>
factoryVars == <<fc>>
fieldVars == <<fld, col>>
vars == <<doc, lookup, initialized, cache, id2name, stack, outcome, nextOid,
          ret, built, fc, fld, col>>

(***************************************************************************)
(* Bounds of the model.                                                    *)
(***************************************************************************)
\* Elements of one tag in the documents of SpecLookup.
MaxElems == 3
\* The interpreter's recursion limit (sys.getrecursionlimit()), scaled down;
\* it stays above the longest acyclic chain the documents can hold.
RecursionLimit == 6

(***************************************************************************)
(* Python values.                                                          *)
(***************************************************************************)
None == "None"
\* Python truthiness of an attribute value: None and "" are false.
Truthy(v) == v # None /\ v # ""

Range(s) == {s[i] : i \in DOMAIN s}
SeqsUpTo(S, n) == UNION {[1..k -> S] : k \in 0..n}

(***************************************************************************)
(* Config.get_element (config.py 49-75).                                   *)
(***************************************************************************)
\* self._tree.findall(qstr): the elements of tag `name`, restricted to those
\* whose id attribute equals `id` only when `id` is truthy (lines 61-64).
\* Returns the indices of the matches in document order.
findall(tree, name, id) ==
    SelectSeq([i \in DOMAIN tree[name] |-> i],
              LAMBDA i : Truthy(id) => tree[name][i].id = id)

\* The outcome of a call: the element returned (its index), None, or the
\* exception raised; calls counts the invocations of get_element it took.
Returned(name, node, n) == [kind |-> "Element", tag |-> name, node |-> node, calls |-> n]
ReturnedNone(n) == [kind |-> "None", tag |-> "", node |-> 0, calls |-> n]
Raised(exc, n) == [kind |-> exc, tag |-> "", node |-> 0, calls |-> n]

RECURSIVE get_element(_, _, _, _)

\* A get_element that returns the first match and never follows its ref.
get_element_noretry(tree, name, id, depth) ==
    LET result == findall(tree, name, id) IN
    IF Len(result) > 1 THEN Raised("KeyError", depth + 1)
    ELSE IF Len(result) = 1 THEN Returned(name, result[1], depth + 1)
    ELSE ReturnedNone(depth + 1)

\* depth is the number of get_element frames already on the stack; the
\* retry of line 72 is a recursive call, which the interpreter cuts with a
\* RuntimeError (maximum recursion depth exceeded) at its recursion limit.
get_element(tree, name, id, depth) ==
    IF depth >= RecursionLimit THEN Raised("RuntimeError", depth)
    ELSE LET result == findall(tree, name, id) IN
         IF Len(result) > 1 THEN Raised("KeyError", depth + 1)
         ELSE IF Len(result) = 1 THEN
             LET ref == tree[name][result[1]].ref IN
             IF Truthy(ref) THEN get_element(tree, name, ref, depth + 1)
             ELSE Returned(name, result[1], depth + 1)
         ELSE ReturnedNone(depth + 1)

\* What the caller observes of an outcome.
Observed(out) == <<out.kind, out.tag, out.node>>

(***************************************************************************)
(* Idle values of the state each specification leaves alone.               *)
(***************************************************************************)
EmptyMap == [x \in {} |-> None]
NoLookup == [state |-> "idle", id |-> None, out |-> ReturnedNone(0)]
NoCreate == [state |-> "idle"]
NoForm == [fields |-> <<>>, snippets |-> <<>>]
\* An attribute of the Form object that may not have been assigned yet.
Unassigned == [set |-> FALSE, exc |-> None, val |-> EmptyMap]
Assigned(v) == [set |-> TRUE, exc |-> None, val |-> v]
Failed(exc) == [set |-> TRUE, exc |-> exc, val |-> EmptyMap]
NoBuilt == [done |-> FALSE, fields |-> EmptyMap, id2name |-> EmptyMap,
            doc |-> [entity |-> <<>>, snippet |-> <<>>, form |-> NoForm]]

FormIdle ==
    /\ initialized = FALSE
    /\ cache = Unassigned
    /\ id2name = EmptyMap
    /\ stack = <<>>
    /\ outcome = "idle"
    /\ nextOid = 1
    /\ ret = Unassigned
    /\ built = NoBuilt

(***************************************************************************)
(* config.Field (config.py 199-237) and Form (config.py 94-180).           *)
(***************************************************************************)
NoField == [oid |-> 0, node |-> 0, id |-> None, name |-> None, type |-> None,
            renderer |-> None]

\* Field.__init__ (lines 211-228) on an entity element: attrib.get('type',
\* 'string') gives "string" for an undeclared type; the renderer is None.
\* oid is the identity of the new object, node the element it was built from.
Field(e, node, oid) ==
    [oid |-> oid, node |-> node, id |-> e.id, name |-> e.name,
     type |-> IF e.type = None THEN "string" ELSE e.type,
     renderer |-> None]

\* Field(entity) for the outcome of a lookup: Config.__init__ (lines 30-36)
\* raises ValueError for None, and self.name.capitalize() (line 213) raises
\* AttributeError for an entity without a name.
NewField(tree, ent, oid) ==
    IF ent.kind # "Element" THEN [exc |-> "ValueError", obj |-> NoField]
    ELSE LET e == tree[ent.tag][ent.node] IN
         IF e.name = None THEN [exc |-> "AttributeError", obj |-> NoField]
         ELSE [exc |-> None, obj |-> Field(e, ent.node, oid)]

\* d[k] = v
Put(d, k, v) == [x \in DOMAIN d \cup {k} |-> IF x = k THEN v ELSE d[x]]

\* A merge in which the entries already present win.
update_keepfirst(d, other) ==
    [x \in DOMAIN d \cup DOMAIN other |-> IF x \in DOMAIN d THEN d[x] ELSE other[x]]

\* d.update(other) (line 177)
update(d, other) ==
    [x \in DOMAIN d \cup DOMAIN other |-> IF x \in DOMAIN other THEN other[x] ELSE d[x]]

\* The loop of lines 165-170 over the ref attributes of root's field nodes.
\* acc is [fields, id2name, oid, exc]; an exception ends the loop.
RECURSIVE field_loop(_, _, _)
field_loop(tree, refs, acc) ==
    IF refs = <<>> \/ acc.exc # None THEN acc
    ELSE LET ref == Head(refs)
             entity == get_element(tree, "entity", ref, 0)
         IN  IF entity.kind \in {"KeyError", "RuntimeError"}
             THEN [acc EXCEPT !.exc = entity.kind]
             ELSE LET field == NewField(tree, entity, acc.oid) IN
                  IF field.exc # None THEN [acc EXCEPT !.exc = field.exc]
                  ELSE field_loop(tree, Tail(refs),
                         [fields |-> Put(acc.fields, field.obj.name, field.obj),
                          id2name |-> Put(acc.id2name, ref, field.obj.name),
                          oid |-> acc.oid + 1,
                          exc |-> None])

\* A get_fields frame.  root is 0 for self._tree (the root argument None)
\* or the index of the snippet element passed as root; i is the position of
\* the snippet loop (line 173).
Frame(root) == [root |-> root, pc |-> "enter", fields |-> EmptyMap, i |-> 1]
Top == stack[Len(stack)]
RootOf(r) == IF r = 0 THEN doc.form ELSE doc.snippet[r]

\* A get_fields that never looks at the flag.
UsesCache_never == FALSE

\* Line 155: "if self._initialized".
UsesCache == initialized

\* The top frame returns val (lines 156 and 180).  A nested call returns
\* into fields.update (line 177) of its caller; the call made by __init__
\* returns into "self._fields =" (line 141), which ends the construction;
\* a call made on the built Form returns to its caller.
Return(val, id2, oid) ==
    /\ id2name' = id2
    /\ nextOid' = oid
    /\ IF Len(stack) > 1
       THEN /\ stack' = [SubSeq(stack, 1, Len(stack) - 1) EXCEPT
                           ![Len(stack) - 1].fields = update(@, val)]
            /\ UNCHANGED <<cache, outcome, ret, built>>
       ELSE /\ stack' = <<>>
            /\ IF outcome = "running"
               THEN /\ cache' = Assigned(val)
                    /\ outcome' = "Form"
                    /\ built' = [done |-> TRUE, fields |-> val,
                                 id2name |-> id2, doc |-> doc]
                    /\ UNCHANGED ret
               ELSE /\ ret' = Assigned(val)
                    /\ UNCHANGED <<cache, outcome, built>>

\* An exception leaves every frame: __init__ fails with it and no Form
\* exists, or the call made on the built Form raises it.
Raise(exc, id2, oid) ==
    /\ id2name' = id2
    /\ nextOid' = oid
    /\ stack' = <<>>
    /\ IF outcome = "running"
       THEN outcome' = exc /\ UNCHANGED ret
       ELSE ret' = Failed(exc) /\ UNCHANGED outcome
    /\ UNCHANGED <<cache, built>>

\* Form.__init__ (lines 107-141) up to its call of self.get_fields().
FormInit ==
    /\ outcome = "idle"
    /\ outcome' = "running"
    /\ initialized' = FALSE
    /\ id2name' = EmptyMap
    /\ stack' = <<Frame(0)>>
    /\ UNCHANGED <<doc, lookupVars, cache, nextOid, ret, built, factoryVars, fieldVars>>

\* A caller invokes get_fields(root) on the built Form.
GetFieldsCall(root) ==
    /\ outcome = "Form"
    /\ stack = <<>>
    /\ stack' = <<Frame(root)>>
    /\ ret' = Unassigned
    /\ UNCHANGED <<doc, lookupVars, initialized, cache, id2name, outcome,
                   nextOid, built, factoryVars, fieldVars>>

\* Lines 155-156: the fields are taken to be initialized; self._fields is
\* returned, which raises AttributeError while it has not been assigned.
GetFieldsCached ==
    /\ stack # <<>>
    /\ Top.pc = "enter"
    /\ UsesCache
    /\ IF cache.set
       THEN Return(cache.val, id2name, nextOid)
       ELSE Raise("AttributeError", id2name, nextOid)
    /\ UNCHANGED <<doc, lookupVars, initialized, factoryVars, fieldVars>>

\* Lines 158-170: the field nodes of root.
GetFieldsFields ==
    /\ stack # <<>>
    /\ Top.pc = "enter"
    /\ ~UsesCache
    /\ LET acc == field_loop(doc, RootOf(Top.root).fields,
                     [fields |-> EmptyMap, id2name |-> id2name,
                      oid |-> nextOid, exc |-> None])
       IN  IF acc.exc # None
           THEN Raise(acc.exc, acc.id2name, acc.oid)
           ELSE /\ stack' = [stack EXCEPT ![Len(stack)].pc = "snippets",
                                          ![Len(stack)].fields = acc.fields]
                /\ id2name' = acc.id2name
                /\ nextOid' = acc.oid
                /\ UNCHANGED <<cache, outcome, ret, built>>
    /\ UNCHANGED <<doc, lookupVars, initialized, factoryVars, fieldVars>>

\* Lines 173-177: the next snippet node of root.  One without a ref is
\* passed over; otherwise the snippet is looked up and get_fields is called
\* on what the lookup returned (None makes the callee walk self._tree).
GetFieldsSnippet ==
    /\ stack # <<>>
    /\ Top.pc = "snippets"
    /\ Top.i <= Len(RootOf(Top.root).snippets)
    /\ LET sref == RootOf(Top.root).snippets[Top.i]
           s == get_element(doc, "snippet", sref, 0)
           next == [stack EXCEPT ![Len(stack)].i = @ + 1]
       IN  IF ~Truthy(sref)
           THEN stack' = next /\ UNCHANGED <<cache, id2name, outcome, nextOid, ret, built>>
           ELSE IF s.kind \in {"KeyError", "RuntimeError"}
           THEN Raise(s.kind, id2name, nextOid)
           ELSE IF Len(stack) >= RecursionLimit
           THEN Raise("RuntimeError", id2name, nextOid)
           ELSE /\ stack' = Append(next, Frame(s.node))
                /\ UNCHANGED <<cache, id2name, outcome, nextOid, ret, built>>
    /\ UNCHANGED <<doc, lookupVars, initialized, factoryVars, fieldVars>>

\* Lines 179-180: the walk of root is over.
GetFieldsDone ==
    /\ stack # <<>>
    /\ Top.pc = "snippets"
    /\ Top.i > Len(RootOf(Top.root).snippets)
    /\ initialized' = TRUE
    /\ Return(Top.fields, id2name, nextOid)
    /\ UNCHANGED <<doc, lookupVars, factoryVars, fieldVars>>

\* The application changes the document the built Form was read from.
Mutate ==
    /\ outcome = "Form"
    /\ stack = <<>>
    /\ doc = built.doc
    /\ \/ doc' = [doc EXCEPT !.entity[1].name = "c"]
       \/ doc' = [doc EXCEPT !.form = NoForm]
    /\ UNCHANGED <<lookupVars, formVars, factoryVars, fieldVars>>

(***************************************************************************)
(* FieldFactory.create (fields.py 57-134).                                 *)
(***************************************************************************)
\* A storage property (what get_sa_property returns): None, a column
\* property with the text of its column type, or a relationship property
\* with the name of its direction.
NoProperty == [kind |-> "none", text |-> None]
Column(dtype) == [kind |-> "column", text |-> dtype]
Relation(direction) == [kind |-> "relation", text |-> direction]

\* str.lower() on the direction names.
lower(text) ==
    CASE text = "MANYTOONE" -> "manytoone"
      [] text = "ONETOMANY" -> "onetomany"
      [] text = "MANYTOMANY" -> "manytomany"
      [] OTHER -> text

\* get_type_from_sa_property (lines 24-40); sa_property.columns raises
\* AttributeError on a relationship property.
get_type_from_sa_property(sa_property) ==
    IF sa_property.kind = "column"
    THEN LET dtype == sa_property.text IN
         IF dtype = "TEXT" \/ dtype \in {"VARCHAR", "VARCHAR(50)"} THEN "string"
         ELSE IF dtype = "DATE" THEN "date"
         ELSE IF dtype = "INTEGER" THEN "integer"
         ELSE IF dtype = "BOOLEAN" THEN "boolean"
         ELSE dtype
    ELSE lower(sa_property.text)

\* Lines 70-78: the property is only looked up when the form has an item.
sa_property_of(item, prop) == IF item THEN prop ELSE NoProperty
sa_dtype_of(sa_property) ==
    IF sa_property.kind # "none" THEN get_type_from_sa_property(sa_property)
    ELSE None

\* A resolution in which the storage type overrides the configured one.
effective_type_storagefirst(configured, sa_dtype) ==
    IF Truthy(sa_dtype) THEN sa_dtype
    ELSE IF Truthy(configured) THEN configured
    ELSE "string"

\* Lines 82-87.
effective_type(configured, sa_dtype) ==
    IF Truthy(configured) THEN configured
    ELSE IF Truthy(sa_dtype) THEN sa_dtype
    ELSE "string"

\* The condition of line 92 under which the mismatch is logged.
mismatch_logged(sa_dtype, dtype) ==
    sa_dtype # dtype /\ (sa_dtype # None /\ dtype # "string")

\* "%sselection" % dtype (line 127)
selection(dtype) ==
    CASE dtype = "string" -> "stringselection"
      [] dtype = "integer" -> "integerselection"
      [] dtype = "boolean" -> "booleanselection"
      [] dtype = "float" -> "floatselection"
      [] dtype = "date" -> "dateselection"
      [] dtype = "FLOAT" -> "FLOATselection"
      [] dtype = "manytoone" -> "manytooneselection"
      [] dtype = "onetomany" -> "onetomanyselection"
      [] dtype = "onetoone" -> "onetooneselection"
      [] dtype = "manytomany" -> "manytomanyselection"

\* A promotion that lets a checkbox take any type.
promote_nocheck(dtype, renderer) ==
    IF dtype \notin {"manytoone", "onetomany", "onetoone"} /\ Truthy(renderer)
    THEN IF renderer \in {"dropdown", "radio"}
         THEN [exc |-> None, dtype |-> selection(dtype)]
         ELSE IF renderer = "checkbox"
         THEN [exc |-> None, dtype |-> "multiselection"]
         ELSE [exc |-> None, dtype |-> dtype]
    ELSE [exc |-> None, dtype |-> dtype]

\* Lines 124-131: the renderer's say on the type.  renderer is None or the
\* type of fieldconfig.renderer.
promote(dtype, renderer) ==
    IF dtype \notin {"manytoone", "onetomany", "onetoone"} /\ Truthy(renderer)
    THEN IF renderer \in {"dropdown", "radio"}
         THEN [exc |-> None, dtype |-> selection(dtype)]
         ELSE IF renderer = "checkbox"
         THEN IF dtype \notin {"string", "integer"}
              THEN [exc |-> "TypeError", dtype |-> dtype]
              ELSE [exc |-> None, dtype |-> "multiselection"]
         ELSE [exc |-> None, dtype |-> dtype]
    ELSE [exc |-> None, dtype |-> dtype]

\* builder_map (lines 101-120) and the class each builder constructs (lines
\* 136-194); line 133 falls back to _create_default.
builder_map(dtype) ==
    CASE dtype = "string" -> "StringField"
      [] dtype = "integer" -> "IntegerField"
      [] dtype = "float" -> "FloatField"
      [] dtype = "date" -> "DateField"
      [] dtype = "datetime" -> "DateTimeField"
      [] dtype = "interval" -> "TimedeltaField"
      [] dtype = "time" -> "TimeField"
      [] dtype = "file" -> "FileField"
      [] dtype = "boolean" -> "BooleanField"
      [] dtype = "email" -> "EmailField"
      [] dtype = "integerselection" -> "IntSelectionField"
      [] dtype = "stringselection" -> "StringSelectionField"
      [] dtype = "booleanselection" -> "BooleanSelectionField"
      [] dtype = "multiselection" -> "MultiselectionField"
      [] dtype = "manytoone" -> "ManytooneRelationField"
      [] dtype = "onetoone" -> "OnetooneRelationField"
      [] dtype = "onetomany" -> "OnetomanyRelationField"
      [] dtype = "manytomany" -> "ManytomanyRelationField"
      [] OTHER -> "Field"

\* create(fieldconfig) on a form whose item is there or not and whose
\* item maps the field's name to prop: what it resolved, logged and built.
create(fieldconfig, item, prop) ==
    LET sa_property == sa_property_of(item, prop)
        sa_dtype == sa_dtype_of(sa_property)
        dtype == effective_type(fieldconfig.type, sa_dtype)
        final == promote(dtype, fieldconfig.renderer)
    IN  [state |-> "done",
         config |-> fieldconfig,
         sa_dtype |-> sa_dtype,
         dtype |-> dtype,
         mismatch |-> mismatch_logged(sa_dtype, dtype),
         exc |-> final.exc,
         final |-> final.dtype,
         built |-> IF final.exc = None THEN builder_map(final.dtype) ELSE None]

(***************************************************************************)
(* Python strings and values (fields.py works on them with str methods).   *)
(* A string is the sequence of its characters; a value is tagged with its  *)
(* Python type.                                                            *)
(***************************************************************************)
startswith(s, p) == Len(p) <= Len(s) /\ SubSeq(s, 1, Len(p)) = p
endswith(s, p) == Len(p) <= Len(s) /\ SubSeq(s, Len(s) - Len(p) + 1, Len(s)) = p

\* s.strip(chars): the characters of chars are removed from both ends.
RECURSIVE lstrip(_, _)
lstrip(s, chars) ==
    IF s # <<>> /\ Head(s) \in chars THEN lstrip(Tail(s), chars) ELSE s
RECURSIVE rstrip(_, _)
rstrip(s, chars) ==
    IF s # <<>> /\ s[Len(s)] \in chars THEN rstrip(SubSeq(s, 1, Len(s) - 1), chars)
    ELSE s
strip(s, chars) == rstrip(lstrip(s, chars), chars)

\* s.split(sep) for a one-character sep: empty pieces are kept.
RECURSIVE split(_, _)
split(s, sep) ==
    IF \A i \in DOMAIN s : s[i] # sep THEN <<s>>
    ELSE LET k == CHOOSE i \in DOMAIN s :
                      s[i] = sep /\ \A j \in 1..(i - 1) : s[j] # sep
         IN  <<SubSeq(s, 1, k - 1)>> \o split(SubSeq(s, k + 1, Len(s)), sep)

\* sep.join(parts)
RECURSIVE join(_, _)
join(parts, sep) ==
    IF parts = <<>> THEN <<>>
    ELSE IF Len(parts) = 1 THEN parts[1]
    ELSE parts[1] \o sep \o join(Tail(parts), sep)

\* s.replace(x, v) for a non-empty x: every occurrence of the text x in s,
\* found from left to right without overlap, wherever it stands.
RECURSIVE replace(_, _, _)
replace(s, x, v) ==
    IF Len(s) < Len(x) THEN s
    ELSE IF startswith(s, x)
         THEN v \o replace(SubSeq(s, Len(x) + 1, Len(s)), x, v)
         ELSE <<Head(s)>> \o replace(Tail(s), x, v)

Digits == <<"0", "1", "2", "3", "4", "5", "6", "7", "8", "9">>
IsDigit(c) == \E d \in DOMAIN Digits : Digits[d] = c
DigitValue(c) == (CHOOSE d \in DOMAIN Digits : Digits[d] = c) - 1
\* the decimal text of a natural number
RECURSIVE decimal(_)
decimal(n) ==
    IF n < 10 THEN <<Digits[n + 1]>>
    ELSE decimal(n \div 10) \o <<Digits[(n % 10) + 1]>>
\* the number a decimal text stands for
RECURSIVE number(_)
number(s) ==
    IF s = <<>> THEN 0
    ELSE number(SubSeq(s, 1, Len(s) - 1)) * 10 + DigitValue(s[Len(s)])
IsNumeric(s) == s # <<>> /\ \A i \in DOMAIN s : IsDigit(s[i])

\* Every value carries one slot per Python type, so that values of different
\* types can be compared: only the slot of its type t is meaningful.
VNone == [t |-> "None", s |-> <<>>, n |-> 0, b |-> FALSE, l |-> <<>>]
VStr(str) == [VNone EXCEPT !.t = "str", !.s = str]
VInt(num) == [VNone EXCEPT !.t = "int", !.n = num]
VBool(bool) == [VNone EXCEPT !.t = "bool", !.b = bool]
VList(list) == [VNone EXCEPT !.t = "list", !.l = list]
\* The result of a call: a value, or the exception it raised.
Ok(val) == [exc |-> None, val |-> val]
Exc(name) == [exc |-> name, val |-> VNone]

\* repr(v) of a list element, as unicode(list) writes it.
repr(val) ==
    CASE val.t = "int" -> decimal(val.n)
      [] val.t = "str" -> <<"u", "'">> \o val.s \o <<"'">>
      [] val.t = "bool" -> IF val.b THEN <<"T", "r", "u", "e">>
                           ELSE <<"F", "a", "l", "s", "e">>
      [] OTHER -> <<"N", "o", "n", "e">>
\* unicode(v)
unicode(val) ==
    CASE val.t = "str" -> val.s
      [] val.t = "list" ->
            <<"[">> \o join([i \in DOMAIN val.l |-> repr(val.l[i])], <<",", " ">>)
                    \o <<"]">>
      [] OTHER -> repr(val)
\* Python truthiness of a value
truth(val) ==
    CASE val.t = "None" -> FALSE
      [] val.t = "str" -> val.s # <<>>
      [] val.t = "int" -> val.n # 0
      [] val.t = "bool" -> val.b
      [] val.t = "list" -> val.l # <<>>
      [] OTHER -> TRUE
\* int(v)
int(val) ==
    CASE val.t = "int" -> Ok(val)
      [] val.t = "bool" -> Ok(VInt(IF val.b THEN 1 ELSE 0))
      [] val.t = "str" -> IF IsNumeric(val.s) THEN Ok(VInt(number(val.s)))
                          ELSE Exc("ValueError")
      [] OTHER -> Exc("TypeError")

(***************************************************************************)
(* fields.Field and its per-type subclasses: construction with a default   *)
(* value, and the conversions of the value held by the field.              *)
(***************************************************************************)
FieldClasses ==
    {"Field", "StringField", "IntegerField", "TimeField", "IntSelectionField",
     "StringSelectionField", "BooleanSelectionField"}
SelectionClasses ==
    {"IntSelectionField", "StringSelectionField", "BooleanSelectionField"}

\* formbar.converters.to_string: normalises to text.
to_string(value) == Ok(VStr(unicode(value)))
\* formbar.converters.to_integer: the whole number of a numeric text; fails
\* on anything else.
to_integer(value) ==
    IF int(value).exc = None THEN int(value) ELSE Exc("DeserializeException")
\* formbar.converters.to_timedelta(value).total_seconds(): the seconds of a
\* duration written h:m:s; fails on any other text.
to_timedelta_seconds(value) ==
    IF value.t # "str" THEN Exc("DeserializeException")
    ELSE LET parts == split(value.s, ":")
         IN  IF Len(parts) = 3 /\ \A i \in 1..3 : IsNumeric(parts[i])
             THEN Ok(VInt(number(parts[1]) * 3600 + number(parts[2]) * 60
                          + number(parts[3])))
             ELSE Exc("DeserializeException")
\* formbar.converters.from_timedelta of datetime.timedelta(seconds=n):
\* the duration written hh:mm:ss.
two_digits(n) == IF n < 10 THEN <<"0">> \o decimal(n) ELSE decimal(n)
from_timedelta(n) ==
    VStr(two_digits(n \div 3600) \o <<":">> \o two_digits((n % 3600) \div 60)
         \o <<":">> \o two_digits(n % 60))

\* Field._from_python (lines 291-297), also StringField's (364-367).
Field_from_python_text(value) ==
    IF value.t = "None" THEN <<>> ELSE unicode(value)
Field_from_python(value) == Ok(VStr(Field_from_python_text(value)))

\* TimeField._from_python (lines 450-453)
TimeField_from_python(value) ==
    IF int(value).exc # None THEN int(value)
    ELSE Ok(from_timedelta(int(value).val.n))

\* The conversion of one element of a serialised list (lines 659-664).
selection_element(cls, v) ==
    CASE cls = "IntSelectionField" -> int(VStr(v))
      [] cls = "BooleanSelectionField" -> Ok(VBool(v # <<>>))
      [] OTHER -> Ok(VStr(v))
\* SelectionField._from_python (lines 650-668)
SelectionField_from_python(cls, value) ==
    LET text == Field_from_python_text(value)
    IN  IF startswith(text, <<"{">>) /\ endswith(text, <<"}">>)
        THEN LET vs == split(strip(strip(text, {"{"}), {"}"}), ",")
                 es == [i \in DOMAIN vs |-> selection_element(cls, vs[i])]
             IN  IF \E i \in DOMAIN es : es[i].exc # None
                 THEN es[CHOOSE i \in DOMAIN es :
                             /\ es[i].exc # None
                             /\ \A j \in 1..(i - 1) : es[j].exc = None]
                 ELSE Ok(VList([i \in DOMAIN es |-> es[i].val]))
        ELSE Ok(VStr(text))

\* self._from_python(value), by the class of self
from_python(cls, value) ==
    CASE cls = "TimeField" -> TimeField_from_python(value)
      [] cls \in SelectionClasses -> SelectionField_from_python(cls, value)
      [] OTHER -> Field_from_python(value)

\* SelectionField._to_python (lines 670-673)
SelectionField_to_python(value) ==
    IF value.t = "list"
    THEN Ok(VStr(<<"{">> \o join([i \in DOMAIN value.l |-> unicode(value.l[i])],
                                 <<",">>) \o <<"}">>))
    ELSE Ok(VStr(unicode(value)))
\* IntSelectionField._to_python (lines 679-683)
IntSelectionField_to_python(value) ==
    IF value.t = "list"
    THEN LET es == [i \in DOMAIN value.l |-> to_integer(value.l[i])]
         IN  IF \E i \in DOMAIN es : es[i].exc # None
             THEN Exc("DeserializeException")
             ELSE Ok(VList([i \in DOMAIN es |-> es[i].val]))
    ELSE to_integer(value)

\* self._to_python(value), by the class of self
to_python(cls, value) ==
    CASE cls = "StringField" -> to_string(value)
      [] cls = "IntegerField" -> to_integer(value)
      [] cls = "TimeField" -> to_timedelta_seconds(value)
      [] cls = "IntSelectionField" -> IntSelectionField_to_python(value)
      [] cls \in SelectionClasses -> SelectionField_to_python(value)
      [] OTHER -> Ok(value)

\* The item bound to the form: absent, or an object with an id whose
\* attribute reads end as `read` says.
NoItem == [exists |-> FALSE, id |-> VNone, read |-> Exc("AttributeError")]
Item(id, read) == [exists |-> TRUE, id |-> id, read |-> read]

NoFieldObject ==
    [state |-> "idle", cls |-> "Field", item |-> NoItem, config |-> VNone,
     value |-> VNone, previous_value |-> VNone,
     op |-> "none", exc |-> None, res |-> VNone, logged |-> FALSE]

\* Lines 232-253: the default value "$name" is read off the item; a failed
\* read leaves None and is logged when the item is there and has an id.
logs_failed_read_whatever_id(item) == item.exists
logs_failed_read(item) == item.exists /\ truth(item.id)
dollar_default(item) ==
    IF item.read.exc = None
    THEN [exc |-> None, val |-> item.read.val, logged |-> FALSE]
    ELSE IF item.read.exc \in {"IndexError", "AttributeError"}
         THEN [exc |-> None, val |-> VNone, logged |-> logs_failed_read(item)]
         ELSE [exc |-> item.read.exc, val |-> VNone, logged |-> FALSE]

\* Lines 221-258 of Field.__init__: the default value of the configuration,
\* resolved (expr is what the expression engine returns for a "%" value)
\* and converted when truthy.
default_value(cls, item, config, expr) ==
    LET resolved ==
            IF truth(config) /\ startswith(config.s, <<"%">>)
            THEN [exc |-> None, val |-> expr, logged |-> FALSE]
            ELSE IF truth(config) /\ startswith(config.s, <<"$">>)
                 THEN dollar_default(item)
                 ELSE [exc |-> None, val |-> config, logged |-> FALSE]
    IN  IF resolved.exc = None /\ truth(resolved.val)
        THEN to_python(cls, resolved.val) @@ [logged |-> resolved.logged]
        ELSE resolved

\* Field.__init__ (lines 202-260)
FieldInit(cls, item, config, expr) ==
    /\ fld.state = "idle"
    /\ LET d == default_value(cls, item, config, expr)
       IN  fld' = [fld EXCEPT !.state = IF d.exc = None THEN "field" ELSE "failed",
                              !.cls = cls, !.item = item, !.config = config,
                              !.value = d.val, !.previous_value = VNone,
                              !.op = "__init__", !.exc = d.exc,
                              !.res = VNone, !.logged = d.logged]
    /\ UNCHANGED <<doc, lookupVars, formVars, factoryVars, col>>

\* Field.set_value (lines 309-310)
SetValue(value) ==
    /\ fld.state = "field"
    /\ fld' = [fld EXCEPT !.value = value, !.op = "set_value", !.exc = None,
                          !.res = VNone, !.logged = FALSE]
    /\ UNCHANGED <<doc, lookupVars, formVars, factoryVars, col>>

\* Field.set_previous_value (lines 312-313)
SetPreviousValue(value) ==
    /\ fld.state = "field"
    /\ fld' = [fld EXCEPT !.previous_value = value, !.op = "set_previous_value",
                          !.exc = None, !.res = VNone, !.logged = FALSE]
    /\ UNCHANGED <<doc, lookupVars, formVars, factoryVars, col>>

\* Field.get_value (lines 315-333): a failed conversion is logged and the
\* value is returned as it is.
get_value(cls, value, default) ==
    LET r == from_python(cls, value)
    IN  IF r.exc # None THEN [exc |-> None, val |-> value, logged |-> TRUE]
        ELSE IF ~truth(r.val) /\ truth(default)
             THEN [exc |-> None, val |-> default, logged |-> FALSE]
             ELSE [exc |-> None, val |-> r.val, logged |-> FALSE]
GetValue(default) ==
    /\ fld.state = "field"
    /\ LET r == get_value(fld.cls, fld.value, default)
       IN  fld' = [fld EXCEPT !.op = "get_value", !.exc = r.exc, !.res = r.val,
                              !.logged = r.logged]
    /\ UNCHANGED <<doc, lookupVars, formVars, factoryVars, col>>

\* Field.get_previous_value (lines 335-339): the conversion is not guarded.
get_previous_value(cls, value, default) ==
    LET r == from_python(cls, value)
    IN  IF r.exc # None THEN [exc |-> r.exc, val |-> VNone, logged |-> FALSE]
        ELSE IF ~truth(r.val) /\ truth(default)
             THEN [exc |-> None, val |-> default, logged |-> FALSE]
             ELSE [exc |-> None, val |-> r.val, logged |-> FALSE]
GetPreviousValue(default) ==
    /\ fld.state = "field"
    /\ LET r == get_previous_value(fld.cls, fld.previous_value, default)
       IN  fld' = [fld EXCEPT !.op = "get_previous_value", !.exc = r.exc,
                              !.res = r.val, !.logged = r.logged]
    /\ UNCHANGED <<doc, lookupVars, formVars, factoryVars, col>>

(***************************************************************************)
(* fields.CollectionField: the options of a selection or relation field,   *)
(* their filter and their order.                                           *)
(***************************************************************************)
\* The characters of the model in the order of their code points.
Chars ==
    <<" ", "!", "$", "%", "'", ",", ".", "0", "1", "2", "3", "4", "5", "6",
      "7", "8", "9", "=", "@", "A", "B", "[", "]", "_", "a", "b", "c", "d",
      "e", "i", "l", "n", "o", "s", "t", "u", "v", "x", "{", "}">>
ord(c) == CHOOSE k \in DOMAIN Chars : Chars[k] = c
\* a < b for two texts, as Python compares unicode strings
RECURSIVE text_less(_, _)
text_less(a, b) ==
    IF b = <<>> THEN FALSE
    ELSE IF a = <<>> THEN TRUE
    ELSE IF Head(a) # Head(b) THEN ord(Head(a)) < ord(Head(b))
    ELSE text_less(Tail(a), Tail(b))

\* An option is a configured tuple (label, value, attributes) or a mapped
\* item of the storage; text is unicode(label) and, for an item, value is
\* its id and attrs are its attributes.
Option(kind, text, value, attrs) ==
    [kind |-> kind, text |-> text, value |-> value, attrs |-> attrs]
\* A returned option (label, value, visible)
Triple(option, visible) ==
    [text |-> option.text, value |-> option.value, visible |-> visible]

\* sorted(options, key=lambda x: unicode(x[0]), reverse=reverse): stable,
\* options of equal label keep their order in either direction.
RECURSIVE insert_sorted(_, _, _)
insert_sorted(x, done, reverse) ==
    IF done = <<>> THEN <<x>>
    ELSE IF (IF reverse THEN text_less(Head(done).text, x.text)
             ELSE text_less(x.text, Head(done).text))
         THEN <<x>> \o done
         ELSE <<Head(done)>> \o insert_sorted(x, Tail(done), reverse)
RECURSIVE sorted(_, _)
sorted(options, reverse) ==
    IF options = <<>> THEN <<>>
    ELSE insert_sorted(options[Len(options)],
                       sorted(SubSeq(options, 1, Len(options) - 1), reverse),
                       reverse)

\* The renderer configuration of the field: none, or its filter, sort and
\* sortorder attributes.
NoRenderer == [exists |-> FALSE, filter |-> VNone, sort |-> FALSE, sortorder |-> None]
Renderer(filter, sort, sortorder) ==
    [exists |-> TRUE, filter |-> filter, sort |-> sort, sortorder |-> sortorder]

\* CollectionField.sort_options (lines 499-509)
sort_options(renderer, options) ==
    IF renderer.exists /\ renderer.sort
    THEN sorted(options, renderer.sortorder = "desc")
    ELSE options

\* A mapping with text keys (a dict): get with a default.
NoAttrs == [k \in {} |-> VNone]
dict_get(d, key, default) == IF key \in DOMAIN d THEN d[key] ELSE default
\* getattr(obj, key) on an object with the attributes attrs
getattr(attrs, key) ==
    IF key \in DOMAIN attrs THEN Ok(attrs[key]) ELSE Exc("AttributeError")

\* The item bound to the form (self._form._item) and the user of the request
\* (self._form._request.user): absent, or an object with attributes. The
\* item's get_values() is the snapshot of its attributes.
NoObject == [exists |-> FALSE, attrs |-> NoAttrs]
Object(attrs) == [exists |-> TRUE, attrs |-> attrs]

\* Lines 549-575: the value a token of the filter stands for; has is FALSE
\* when the value is None and the token stays as written.
NoValue == [exc |-> None, has |-> FALSE, val |-> VNone]
HasValue(val) == [exc |-> None, has |-> val.t # "None", val |-> val]
Looked(r) == IF r.exc = None THEN HasValue(r.val)
             ELSE [exc |-> r.exc, has |-> FALSE, val |-> VNone]
token_value(x, item, user) ==
    IF startswith(x, <<"%">>)
    THEN LET key == strip(x, {"%"})
         IN  HasValue(VStr(<<"$">> \o (IF key # <<>> THEN key
                                       ELSE <<"v", "a", "l", "u", "e">>)))
    ELSE IF startswith(x, <<"@">>)
    THEN IF item.exists THEN Looked(getattr(item.attrs, strip(x, {"@"})))
         ELSE Looked(Exc("AttributeError"))
    ELSE IF startswith(x, <<"$">>)
    THEN LET tokens == split(x, ".")
             key == strip(tokens[1], {"$"})
         IN  IF Len(tokens) > 1
             THEN IF key = <<"u", "s", "e", "r">> /\ user.exists
                  THEN Looked(getattr(user.attrs, join(Tail(tokens), <<".">>)))
                  ELSE NoValue
             ELSE LET v == dict_get(IF item.exists THEN item.attrs ELSE NoAttrs,
                                    key, VNone)
                  IN  HasValue(IF truth(v) THEN v ELSE VStr(<<>>))
    ELSE NoValue

\* Lines 578-585: the text a value is written as in the rule.
quoted(text) == <<"'">> \o text \o <<"'">>
encode_unquoted(val) ==
    IF val.t = "list"
    THEN <<"[">> \o join([i \in DOMAIN val.l |-> unicode(val.l[i])], <<",">>) \o <<"]">>
    ELSE unicode(val)
encode(val) ==
    IF val.t = "list"
    THEN <<"[">> \o join([i \in DOMAIN val.l |-> quoted(unicode(val.l[i]))], <<",">>)
                 \o <<"]">>
    ELSE IF val.t = "str" /\ startswith(val.s, <<"$">>) THEN unicode(val)
    ELSE quoted(unicode(val))

\* Lines 539-586: the tokens in turn; each value is put in with
\* expr_str.replace(x, value) on the text as it is by then.
build_step(expr_str, x, v) ==
    IF v.exc # None THEN Exc(v.exc)
    ELSE Ok(VStr(IF v.has THEN replace(expr_str, x, encode(v.val)) ELSE expr_str))
RECURSIVE build_loop(_, _, _, _)
build_rest(t, r, item, user) ==
    IF r.exc # None THEN r ELSE build_loop(t, r.val.s, item, user)
build_loop(t, expr_str, item, user) ==
    IF t = <<>> THEN Ok(VStr(expr_str))
    ELSE build_rest(Tail(t),
                    build_step(expr_str, Head(t), token_value(Head(t), item, user)),
                    item, user)
\* CollectionField._build_filter_rule (lines 528-587): the expression of
\* the rule.
build_filter_rule(expr_str, item, user) ==
    build_loop(split(expr_str, " "), expr_str, item, user)

\* re.compile("\$[\w\.]+").findall(text)
Letters ==
    {"A", "B", "a", "b", "c", "d", "e", "i", "l", "n", "o", "s", "t", "u", "v", "x"}
IsWord(c) == c = "_" \/ c = "." \/ IsDigit(c) \/ c \in Letters
RECURSIVE word_prefix(_)
word_prefix(text) ==
    IF text # <<>> /\ IsWord(Head(text)) THEN <<Head(text)>> \o word_prefix(Tail(text))
    ELSE <<>>
RECURSIVE findall_refs(_)
findall_refs(text) ==
    IF text = <<>> THEN <<>>
    ELSE IF Head(text) = "$" /\ word_prefix(Tail(text)) # <<>>
         THEN LET w == word_prefix(Tail(text))
              IN  <<(<<"$">> \o w)>> \o findall_refs(SubSeq(text, Len(w) + 2, Len(text)))
         ELSE findall_refs(Tail(text))

\* formbar.rules.Rule.evaluate(values): the expression is one operand, true
\* when its text is not empty, or two operands compared with == or !=; an
\* operand is a quoted literal or a $name looked up in values.
operand(tok, values) ==
    IF Len(tok) >= 2 /\ startswith(tok, <<"'">>) /\ endswith(tok, <<"'">>)
    THEN Ok(VStr(SubSeq(tok, 2, Len(tok) - 1)))
    ELSE IF startswith(tok, <<"$">>)
    THEN IF Tail(tok) \in DOMAIN values THEN Ok(VStr(values[Tail(tok)]))
         ELSE Exc("EvaluationError")
    ELSE Exc("ParseError")
truthy_operand(a) ==
    IF a.exc # None THEN a ELSE Ok(VBool(a.val.s # <<>>))
compare(a, b, equal) ==
    IF a.exc # None THEN a
    ELSE IF b.exc # None THEN b
    ELSE Ok(VBool((a.val = b.val) = equal))
evaluate_tokens(toks, values) ==
    IF Len(toks) = 1 THEN truthy_operand(operand(toks[1], values))
    ELSE IF Len(toks) = 3 /\ toks[2] \in {<<"=", "=">>, <<"!", "=">>}
    THEN compare(operand(toks[1], values), operand(toks[3], values),
                 toks[2] = <<"=", "=">>)
    ELSE Exc("ParseError")
evaluate(expression, values) == evaluate_tokens(split(expression, " "), values)

\* Lines 616-623: the values of one option for the names found in the rule.
option_value(option, key) ==
    IF option.kind = "tuple" THEN Ok(dict_get(option.attrs, key, VStr(<<>>)))
    ELSE getattr(option.attrs, key)
option_values_of(option, keys) ==
    IF \E key \in keys : option_value(option, key).exc # None
    THEN Exc("AttributeError")
    ELSE [exc |-> None,
          val |-> [key \in keys |-> unicode(option_value(option, key).val)]]

\* Lines 607-630: the triple of one option under the rule.
tagged(option, result) ==
    IF result.exc # None THEN Exc(result.exc)
    ELSE [exc |-> None, val |-> Triple(option, truth(result.val))]
evaluated(option, expression, values) ==
    IF values.exc # None THEN Exc(values.exc)
    ELSE tagged(option, evaluate(expression, values.val))
filter_option(option, expression, keys) ==
    evaluated(option, expression, option_values_of(option, keys))

Filtered(val, body) == [exc |-> None, val |-> val, body |-> body]
FilterFailed(exc, body) == [exc |-> exc, val |-> <<>>, body |-> body]
has_filter(renderer) == renderer.exists /\ truth(renderer.filter)
\* The first exception raised while the options are gone through in order.
first_failure(rs) ==
    rs[CHOOSE i \in DOMAIN rs :
           rs[i].exc # None /\ \A j \in 1..(i - 1) : rs[j].exc = None].exc
collect(rs, body) ==
    IF \E i \in DOMAIN rs : rs[i].exc # None
    THEN FilterFailed(first_failure(rs), body)
    ELSE Filtered([i \in DOMAIN rs |-> rs[i].val], body)
\* Lines 601-602 and 605-630: the names found in the rule, and the options
\* in turn.
filter_each(body, keys, options) ==
    [i \in DOMAIN options |-> filter_option(options[i], body, keys)]
filter_by(body, options) ==
    collect(filter_each(body,
                        {strip(k, {"$"}) : k \in Range(findall_refs(body))},
                        options),
            body)
filter_with(rule, options) ==
    IF rule.exc # None THEN FilterFailed(rule.exc, <<>>)
    ELSE filter_by(rule.val.s, options)
all_visible(options) ==
    Filtered([i \in DOMAIN options |-> Triple(options[i], TRUE)], <<>>)
visible_only(f) == [f EXCEPT !.val = SelectSeq(@, LAMBDA t : t.visible)]
filter_options_hiding(renderer, item, user, options) ==
    IF has_filter(renderer)
    THEN visible_only(filter_with(build_filter_rule(renderer.filter.s, item, user),
                                  options))
    ELSE all_visible(options)
\* CollectionField.filter_options (lines 589-631)
filter_options(renderer, item, user, options) ==
    IF has_filter(renderer)
    THEN filter_with(build_filter_rule(renderer.filter.s, item, user), options)
    ELSE all_visible(options)

\* What get_options gives: the options or the exception that left it, and
\* whether an error was logged.
Listed(val, logged) == [exc |-> None, val |-> val, logged |-> logged]
ListingFailed(exc) == [exc |-> exc, val |-> <<>>, logged |-> FALSE]

\* SelectionField.get_options (lines 638-648) on a configured list of
\* options.
selection_listed(renderer, f) ==
    IF f.exc # None THEN ListingFailed(f.exc)
    ELSE Listed(sort_options(renderer, f.val), FALSE)
SelectionField_get_options(renderer, item, user, options) ==
    IF options = <<>> THEN Listed(sort_options(renderer, <<>>), FALSE)
    ELSE selection_listed(renderer, filter_options(renderer, item, user, options))

\* Lines 746-748, the body of the try: source is what the mapped class and
\* the query of the storage give, the items or an exception.
relation_query(renderer, item, user, source) ==
    IF source.exc # None THEN FilterFailed(source.exc, <<>>)
    ELSE filter_options(renderer, item, user, source.val)
unguarded(f) ==
    IF f.exc # None THEN ListingFailed(f.exc) ELSE Listed(f.val, FALSE)
\* Lines 749-752: whatever was raised is logged, the options stay empty.
guarded(f) ==
    IF f.exc # None THEN Listed(<<>>, TRUE) ELSE Listed(f.val, FALSE)
RelationField_get_options_unguarded(renderer, item, user, source) ==
    unguarded(relation_query(renderer, item, user, source))
\* RelationField.get_options (lines 743-752)
RelationField_get_options(renderer, item, user, source) ==
    guarded(relation_query(renderer, item, user, source))

\* ManytooneRelationField.get_options (lines 757-764)
NoSelection ==
    [text |-> <<"n", "o", " ", "s", "e", "l", "e", "c", "t", "i", "o", "n">>,
     value |-> VStr(<<>>), visible |-> TRUE]
with_no_selection(r) == [r EXCEPT !.val = <<NoSelection>> \o @]
ManytooneRelationField_get_options(renderer, item, user, source) ==
    with_no_selection(RelationField_get_options(renderer, item, user, source))

\* self.get_options(), by the class of self
CollectionClasses == {"SelectionField", "RelationField", "ManytooneRelationField"}
get_options(cls, renderer, item, user, source) ==
    CASE cls = "SelectionField" ->
            SelectionField_get_options(renderer, item, user, source.val)
      [] cls = "ManytooneRelationField" ->
            ManytooneRelationField_get_options(renderer, item, user, source)
      [] OTHER -> RelationField_get_options(renderer, item, user, source)

NoCollection ==
    [state |-> "idle", cls |-> "SelectionField", renderer |-> NoRenderer,
     item |-> NoObject, user |-> NoObject, source |-> Ok(<<>>),
     exc |-> None, res |-> <<>>, body |-> <<>>, logged |-> FALSE]

\* A caller compiles the filter expr_str of a collection field.
BuildFilterRule(expr_str, item, user) ==
    /\ col.state = "idle"
    /\ LET r == build_filter_rule(expr_str, item, user)
       IN  col' = [col EXCEPT !.state = "_build_filter_rule",
                              !.renderer = Renderer(VStr(expr_str), FALSE, None),
                              !.item = item, !.user = user,
                              !.exc = r.exc, !.body = r.val.s]
    /\ UNCHANGED <<doc, lookupVars, formVars, factoryVars, fld>>

\* A caller has the options of a collection field filtered.
FilterOptions(renderer, item, user, options) ==
    /\ col.state = "idle"
    /\ LET r == filter_options(renderer, item, user, options)
       IN  col' = [col EXCEPT !.state = "filter_options",
                              !.renderer = renderer, !.item = item, !.user = user,
                              !.source = Ok(options),
                              !.exc = r.exc, !.res = r.val, !.body = r.body]
    /\ UNCHANGED <<doc, lookupVars, formVars, factoryVars, fld>>

\* A caller lists the options of a collection field of class cls.
GetOptions(cls, renderer, item, user, source) ==
    /\ col.state = "idle"
    /\ LET r == get_options(cls, renderer, item, user, source)
       IN  col' = [col EXCEPT !.state = "get_options", !.cls = cls,
                              !.renderer = renderer, !.item = item, !.user = user,
                              !.source = source,
                              !.exc = r.exc, !.res = r.val, !.logged = r.logged]
    /\ UNCHANGED <<doc, lookupVars, formVars, factoryVars, fld>>

FieldIdle == fld = NoFieldObject /\ col = NoCollection

(***************************************************************************)
(* SpecValue: one field of every modelled class is constructed with a      *)
(* default value over a bound item, then its value and previous value are  *)
(* set and read.                                                           *)
(***************************************************************************)
MaxListLen == 2
Text7 == <<"7">>
TextX == <<"x">>
TextList == <<"{", "1", ",", "2", "}">>
TextBadList == <<"{", "1", ",", "x", "}">>
TextAttr == <<"$", "a">>
TextExpr == <<"%", "e">>
IntLists == {VList(l) : l \in SeqsUpTo({VInt(1), VInt(2)}, MaxListLen)}
FieldValues ==
    {VNone, VStr(<<>>), VStr(Text7), VStr(TextX), VStr(TextList),
     VStr(TextBadList), VInt(7)} \cup IntLists
ConfigValues ==
    {VNone, VStr(<<>>), VStr(Text7), VStr(TextX), VStr(TextList),
     VStr(TextAttr), VStr(TextExpr)}
ItemReads == {Ok(VStr(Text7)), Exc("AttributeError"), Exc("IndexError")}
Items == {NoItem} \cup {Item(id, r) : id \in {VNone, VInt(1)}, r \in ItemReads}
ExprResults == {VNone, VStr(Text7)}
Defaults == {VNone, VStr(TextX)}

InitValue ==
    /\ doc = [entity |-> <<>>, snippet |-> <<>>, form |-> NoForm]
    /\ lookup = NoLookup
    /\ FormIdle
    /\ fc = NoCreate
    /\ FieldIdle

NextValue ==
    \/ \E cls \in FieldClasses, item \in Items, config \in ConfigValues,
          expr \in ExprResults : FieldInit(cls, item, config, expr)
    \/ \E value \in FieldValues : SetValue(value)
    \/ \E value \in FieldValues : SetPreviousValue(value)
    \/ \E default \in Defaults : GetValue(default)
    \/ \E default \in Defaults : GetPreviousValue(default)

SpecValue == InitValue /\ [][NextValue]_vars

(***************************************************************************)
(* SpecOptions: a filter is compiled, a list of options is filtered, and   *)
(* the options of a selection, a relation and a many-to-one relation field *)
(* are listed, over every renderer, item, user and option list below.      *)
(***************************************************************************)
MaxOptions == 2
KeyStatus == <<"s", "t", "a", "t", "u", "s">>
KeySt == <<"s", "t">>
KeyId == <<"i", "d">>
TextActive == <<"a", "c", "t", "i", "v", "e">>
TextInactive == <<"i", "n", "a", "c", "t", "i", "v", "e">>
FilterStatus == <<"$", "s", "t", "a", "t", "u", "s">>
FilterValueThenId == <<"%", " ", "%", "i", "d">>
FilterIdThenValue == <<"%", "i", "d", " ", "%">>
FilterOwnVsItem == <<"%", "s", "t", " ", "=", "=", " ", "@", "s", "t">>
FilterOwnVsUser == <<"%", "s", "t", " ", "!", "=", " ", "$", "u", "s", "e", "r", ".", "s", "t">>
FilterItemAttr == <<"@", "s", "t">>
FilterTexts ==
    {FilterStatus, FilterValueThenId, FilterIdThenValue, FilterOwnVsItem,
     FilterOwnVsUser, FilterItemAttr}
OptionAttrs(id, status, st) ==
    [k \in {KeyId, KeyStatus, KeySt} |->
        IF k = KeyId THEN VInt(id) ELSE IF k = KeyStatus THEN VStr(status)
        ELSE VStr(st)]
TupleOptions ==
    {Option("tuple", <<"b">>, VStr(<<"1">>), OptionAttrs(1, TextActive, <<"a">>)),
     Option("tuple", <<"a">>, VStr(<<"2">>), OptionAttrs(2, TextInactive, <<"b">>)),
     Option("tuple", <<"B">>, VStr(<<"3">>), [k \in {KeySt} |-> VStr(<<"a">>)])}
ItemOptions ==
    {Option("item", <<"b">>, VInt(1), OptionAttrs(1, TextActive, <<"a">>)),
     Option("item", <<"a">>, VInt(2), OptionAttrs(2, TextInactive, <<"b">>)),
     Option("item", <<"B">>, VInt(3), OptionAttrs(3, TextActive, <<"b">>))}
OptionLists == SeqsUpTo(TupleOptions, MaxOptions) \cup SeqsUpTo(ItemOptions, MaxOptions)
FormItems ==
    {NoObject,
     Object([k \in {KeyStatus, KeySt} |->
                IF k = KeyStatus THEN VStr(TextActive) ELSE VStr(<<"a">>)])}
Users == {NoObject, Object([k \in {KeySt} |-> VStr(<<"a">>)])}
FieldRenderers ==
    {NoRenderer} \cup
    {Renderer(f, sort, order) :
        f \in {VNone} \cup {VStr(t) : t \in FilterTexts},
        sort \in BOOLEAN, order \in {None, "desc"}}
\* What the storage gives a relation field: the items, or an exception.
Sources ==
    {Ok(l) : l \in SeqsUpTo(ItemOptions, MaxOptions)} \cup {Exc("OperationalError")}

InitOptions ==
    /\ doc = [entity |-> <<>>, snippet |-> <<>>, form |-> NoForm]
    /\ lookup = NoLookup
    /\ FormIdle
    /\ fc = NoCreate
    /\ FieldIdle

NextOptions ==
    \/ \E expr_str \in FilterTexts, item \in FormItems, user \in Users :
          BuildFilterRule(expr_str, item, user)
    \/ \E renderer \in FieldRenderers, item \in FormItems, user \in Users,
          options \in OptionLists : FilterOptions(renderer, item, user, options)
    \/ \E renderer \in FieldRenderers, item \in FormItems, user \in Users :
          \/ \E options \in SeqsUpTo(TupleOptions, MaxOptions) :
                GetOptions("SelectionField", renderer, item, user, Ok(options))
          \/ \E cls \in {"RelationField", "ManytooneRelationField"},
                source \in Sources :
                GetOptions(cls, renderer, item, user, source)

SpecOptions == InitOptions /\ [][NextOptions]_vars

(***************************************************************************)
(* SpecFactory: create on every combination of configured type, storage    *)
(* property and renderer.                                                  *)
(***************************************************************************)
RelationTypes == {"manytoone", "onetomany", "onetoone", "manytomany"}
ConfigTypes ==
    {None, "", "string", "integer", "boolean", "float", "date"} \cup RelationTypes
Properties ==
    {NoProperty}
    \cup {Column(t) : t \in {"TEXT", "VARCHAR(50)", "DATE", "INTEGER", "BOOLEAN", "FLOAT"}}
    \cup {Relation(d) : d \in {"MANYTOONE", "ONETOMANY", "MANYTOMANY"}}
Renderers == {None, "text", "dropdown", "radio", "checkbox"}

InitFactory ==
    /\ doc = [entity |-> <<>>, snippet |-> <<>>, form |-> NoForm]
    /\ lookup = NoLookup
    /\ FormIdle
    /\ fc = NoCreate
    /\ FieldIdle

\* The field configuration is the config.Field of an entity element whose
\* type attribute is t; the renderer is set on it afterwards.
CreateFromEntity(t, item, prop, renderer) ==
    /\ fc.state = "idle"
    /\ LET e == [id |-> "e1", ref |-> None, name |-> "a", type |-> t]
           fieldconfig == [Field(e, 1, 1) EXCEPT !.renderer = renderer]
       IN  fc' = [create(fieldconfig, item, prop) EXCEPT !.state = "entity"] @@
                 [declared |-> t]
    /\ UNCHANGED <<doc, lookupVars, formVars, fieldVars>>

\* The field configuration is an object of the caller whose type is t.
Create(t, item, prop, renderer) ==
    /\ fc.state = "idle"
    /\ LET fieldconfig == [NoField EXCEPT !.name = "a", !.type = t,
                                          !.renderer = renderer]
       IN  fc' = create(fieldconfig, item, prop) @@ [declared |-> t]
    /\ UNCHANGED <<doc, lookupVars, formVars, fieldVars>>

NextFactory ==
    \E t \in ConfigTypes, item \in BOOLEAN, prop \in Properties, r \in Renderers :
        \/ CreateFromEntity(t, item, prop, r)
        \/ Create(t, item, prop, r)

SpecFactory == InitFactory /\ [][NextFactory]_vars

(***************************************************************************)
(* SpecLookup: get_element on every small document of one tag.             *)
(***************************************************************************)
LookupAttrs == {None, "", "a", "b", "c"}
LookupElems == [id : LookupAttrs, ref : LookupAttrs, name : {"n"}, type : {None}]
LookupDocs ==
    {[entity |-> es, snippet |-> <<>>, form |-> NoForm] :
        es \in SeqsUpTo(LookupElems, MaxElems) \ {<<>>}}

InitLookup ==
    /\ doc \in LookupDocs
    /\ lookup = NoLookup
    /\ FormIdle
    /\ fc = NoCreate
    /\ FieldIdle

\* A caller invokes config.get_element("entity", id).
GetElement(id) ==
    /\ lookup.state = "idle"
    /\ lookup' = [state |-> "done", id |-> id,
                  out |-> get_element(doc, "entity", id, 0)]
    /\ UNCHANGED <<doc, formVars, factoryVars, fieldVars>>

NextLookup == \E id \in LookupAttrs : GetElement(id)

SpecLookup == InitLookup /\ [][NextLookup]_vars

(***************************************************************************)
(* SpecForm: Form construction, and get_fields on the built Form, on every *)
(* small configuration.                                                    *)
(***************************************************************************)
\* snippet nodes below the form node
MaxSnippetUses == 2

EntityIds == {"e1", "e2"}
SnippetIds == {"s1", "s2"}
\* One or two entity elements: ids may clash, refs may chain, dangle or cycle.
FormEntities ==
    LET first == [id : {"e1"}, ref : {None, "e2"}, name : {"a"}, type : {None}]
        second == [id : EntityIds, ref : {None} \cup EntityIds,
                   name : {"a", "b"}, type : {None}]
    IN  {<<e>> : e \in first} \cup {<<e, f>> : e \in first, f \in second}
\* One or two top-level snippet elements; the first may include a snippet
\* (itself too), the second may redirect to the first by its own ref.
FormSnippets ==
    LET first == [id : {"s1"}, ref : {None},
                  fields : SeqsUpTo(EntityIds, 1),
                  snippets : SeqsUpTo(SnippetIds, 1)]
        second == [id : {"s2"}, ref : {None, "s1"},
                   fields : SeqsUpTo(EntityIds, 1),
                   snippets : {<<>>}]
    IN  {<<s>> : s \in first} \cup {<<s, t>> : s \in first, t \in second}
\* The form node: the refs of its field nodes and of its snippet nodes.
FormNodes ==
    [fields : SeqsUpTo({None} \cup EntityIds, 1),
     snippets : SeqsUpTo({None} \cup SnippetIds, MaxSnippetUses)]
FormDocs == [entity : FormEntities, snippet : FormSnippets, form : FormNodes]

InitForm ==
    /\ doc \in FormDocs
    /\ lookup = NoLookup
    /\ FormIdle
    /\ fc = NoCreate
    /\ FieldIdle

NextForm ==
    \/ FormInit
    \/ GetFieldsCached
    \/ GetFieldsFields
    \/ GetFieldsSnippet
    \/ GetFieldsDone
    \/ \E root \in 0..2 : root <= Len(doc.snippet) /\ GetFieldsCall(root)
    \/ Mutate

SpecForm == InitForm /\ [][NextForm]_vars

(***************************************************************************)
(* C1: get_element is characterised by the number of elements its query    *)
(* selects (the elements of the tag, narrowed to those with the given id   *)
(* when an id is given): more than one raises KeyError, none returns None, *)
(* exactly one that refers to no other element is returned itself, and     *)
(* exactly one with ref = X gives the outcome of get_element(tag, X).      *)
(***************************************************************************)
C1_Selected(id) ==
    {i \in DOMAIN doc.entity : Truthy(id) => doc.entity[i].id = id}

C1_Characterised ==
    lookup.state = "done" =>
        LET sel == C1_Selected(lookup.id)
            out == lookup.out
        IN  /\ Cardinality(sel) > 1 => out.kind = "KeyError"
            /\ Cardinality(sel) = 0 => out.kind = "None"
            /\ Cardinality(sel) = 1 =>
                 LET e == CHOOSE i \in sel : TRUE
                     X == doc.entity[e].ref
                 IN  IF Truthy(X)
                     THEN Observed(out) = Observed(get_element(doc, "entity", X, 0))
                     ELSE Observed(out) = <<"Element", "entity", e>>

\* A lookup redirected by a ref that ended on another element.
C1_Witness ==
    /\ lookup.state = "done"
    /\ Cardinality(C1_Selected(lookup.id)) = 1
    /\ \E e \in C1_Selected(lookup.id) :
          /\ Truthy(doc.entity[e].ref)
          /\ lookup.out.kind = "Element"
          /\ lookup.out.node # e

(***************************************************************************)
(* C2: every get_element call ends after finitely many retries: it returns *)
(* an element or None, or raises the configuration error; it never runs    *)
(* the retry more often than there are elements to visit.                  *)
(***************************************************************************)
C2_RetriesBounded ==
    lookup.state = "done" =>
        /\ lookup.out.kind \in {"Element", "None", "KeyError"}
        /\ lookup.out.calls <= Len(doc.entity) + 1

(***************************************************************************)
(* The configuration a Form was (or is being) constructed from, and what   *)
(* it says: the roots the walk is to visit and the entities they name.     *)
(***************************************************************************)
Doc0 == IF built.done THEN built.doc ELSE doc
Constructed == outcome \notin {"idle", "running"}
RootIn(tree, r) == IF r = 0 THEN tree.form ELSE tree.snippet[r]
Resolves(tree, name, ref) ==
    Truthy(ref) /\ get_element(tree, name, ref, 0).kind = "Element"
\* The snippet elements the snippet nodes of root r refer to.
Included(tree, r) ==
    {get_element(tree, "snippet", sref, 0).node :
        sref \in {x \in Range(RootIn(tree, r).snippets) : Resolves(tree, "snippet", x)}}
\* The form node and every snippet element reached through snippet refs.
Reached(tree) ==
    LET R1 == {0} \cup Included(tree, 0)
        R2 == R1 \cup UNION {Included(tree, r) : r \in R1}
    IN  R2 \cup UNION {Included(tree, r) : r \in R2}
\* The entity elements the field nodes of root r resolve to.
EntitiesOf(tree, r) ==
    {get_element(tree, "entity", ref, 0).node :
        ref \in {x \in Range(RootIn(tree, r).fields) : Resolves(tree, "entity", x)}}
\* Every field ref resolves to one named entity, every snippet ref to a
\* snippet, and no snippet includes itself.
WellFormed(tree) ==
    /\ \A r \in Reached(tree) :
          /\ \A ref \in Range(RootIn(tree, r).fields) : Resolves(tree, "entity", ref)
          /\ \A sref \in Range(RootIn(tree, r).snippets) :
                Truthy(sref) => Resolves(tree, "snippet", sref)
    /\ \A r \in Reached(tree) \ {0} :
          r \notin Included(tree, r)
          /\ \A t \in Included(tree, r) : r \notin Included(tree, t)

(***************************************************************************)
(* C3: snippet expansion is complete for any number of snippet references: *)
(* constructing a Form from a configuration whose refs all resolve gives a *)
(* Form whose Fields mapping has an entry for the name of every field node *)
(* of the form node and of every snippet reached through snippet refs.     *)
(***************************************************************************)
C3_ExpansionComplete ==
    (Constructed /\ WellFormed(Doc0)) =>
        /\ outcome = "Form"
        /\ \A r \in Reached(Doc0) : \A e \in EntitiesOf(Doc0, r) :
              Doc0.entity[e].name \in DOMAIN cache.val

(***************************************************************************)
(* C4: when a field node of the form node and a field node of an included  *)
(* snippet resolve to entities of the same name N, the Fields entry for N  *)
(* of the constructed Form is a Field built while expanding a snippet,     *)
(* from the entity of a snippet's field node.                              *)
(***************************************************************************)
C4_Direct(N) == {e \in EntitiesOf(Doc0, 0) : Doc0.entity[e].name = N}
C4_Snippet(N) ==
    {e \in UNION {EntitiesOf(Doc0, r) : r \in Reached(Doc0) \ {0}} :
        Doc0.entity[e].name = N}

C4_SnippetOverrides ==
    outcome = "Form" =>
        \A N \in {"a", "b"} :
            (C4_Direct(N) # {} /\ C4_Snippet(N) # {}) =>
                /\ N \in DOMAIN cache.val
                /\ cache.val[N].oid > Len(Doc0.form.fields)
                /\ cache.val[N].node \in C4_Snippet(N)

\* A Form whose direct field and snippet field have the same name but come
\* from different entities: the snippet's entity is the one kept.
C4_Witness ==
    /\ outcome = "Form"
    /\ \E N \in {"a", "b"} :
          /\ C4_Direct(N) # {}
          /\ C4_Snippet(N) # {}
          /\ C4_Direct(N) \cap C4_Snippet(N) = {}
          /\ cache.val[N].node \in C4_Snippet(N)

(***************************************************************************)
(* C5: on a constructed Form every get_fields call, with or without a root *)
(* argument, returns the mapping __init__ cached, with the same Field      *)
(* objects, also after the document was changed, and the id-to-name index  *)
(* stays as construction left it.                                          *)
(***************************************************************************)
C5_Idempotent ==
    built.done =>
        /\ cache = Assigned(built.fields)
        /\ id2name = built.id2name
        /\ ret.set => ret = Assigned(built.fields)

\* A call that returned the cached fields although the document changed.
C5_Witness ==
    /\ built.done
    /\ doc # built.doc
    /\ ret.set
    /\ ret.val # EmptyMap
    /\ \E N \in DOMAIN ret.val : doc.entity[ret.val[N].node].name # N

(***************************************************************************)
(* C6: a field node whose entity reference cannot be resolved (it has no   *)
(* ref, or its ref names no entity) makes the construction fail: no Form   *)
(* is produced from a configuration with such a field node.                *)
(***************************************************************************)
C6_Unresolvable(tree, ref) ==
    ~Truthy(ref) \/ ~\E i \in DOMAIN tree.entity : tree.entity[i].id = ref

C6_UnresolvedFieldFails ==
    outcome = "Form" =>
        \A r \in Reached(Doc0) : \A ref \in Range(RootIn(Doc0, r).fields) :
            ~C6_Unresolvable(Doc0, ref)

(***************************************************************************)
(* C7: before the renderer is looked at, the effective type is the         *)
(* configured type when there is one, otherwise the storage-derived tag    *)
(* when there is one, otherwise "string"; the storage tag never overrides  *)
(* a configured type.                                                      *)
(***************************************************************************)
Created == fc.state # "idle"

C7_Precedence ==
    Created =>
        /\ Truthy(fc.config.type) => fc.dtype = fc.config.type
        /\ (~Truthy(fc.config.type) /\ fc.sa_dtype # None) => fc.dtype = fc.sa_dtype
        /\ (~Truthy(fc.config.type) /\ fc.sa_dtype = None) => fc.dtype = "string"
        /\ (fc.config.type = None /\ fc.sa_dtype = "integer") => fc.dtype = "integer"
        /\ (fc.config.type = "string" /\ fc.sa_dtype = "integer") => fc.dtype = "string"

\* A configured type that wins over a different storage type.
C7_Witness ==
    /\ Created
    /\ fc.config.type = "string"
    /\ fc.sa_dtype = "integer"
    /\ fc.dtype = "string"

(***************************************************************************)
(* C8: a mismatch is logged exactly when a storage-derived tag exists,     *)
(* differs from the effective type, and the effective type is not the      *)
(* last-resort default (the "string" taken because neither a configured    *)
(* type nor a storage tag was there); so configured "string" over storage  *)
(* "integer" logs it, and nothing is logged without a storage tag.         *)
(***************************************************************************)
C8_DefaultChosen == ~Truthy(fc.config.type) /\ ~Truthy(fc.sa_dtype)

C8_MismatchLogged ==
    Created =>
        fc.mismatch = (/\ fc.sa_dtype # None
                       /\ fc.sa_dtype # fc.dtype
                       /\ ~C8_DefaultChosen)

(***************************************************************************)
(* C9: the field configuration of an entity that declares no type has no   *)
(* declared type, so that create infers the type from the storage hint:    *)
(* an integer column gives an integer field, a date column a date field.   *)
(***************************************************************************)
C9_UndeclaredTypeInferred ==
    (fc.state = "entity" /\ fc.declared = None /\ fc.sa_dtype # None) =>
        /\ fc.config.type = None
        /\ fc.dtype = fc.sa_dtype
        /\ fc.sa_dtype = "integer" /\ fc.config.renderer = None
              => fc.built = "IntegerField"
        /\ fc.sa_dtype = "date" /\ fc.config.renderer = None
              => fc.built = "DateField"

(***************************************************************************)
(* C10: a relation type (manytoone, onetomany, onetoone, manytomany) keeps *)
(* its name under a dropdown or radio renderer and is built by the         *)
(* constructor registered for it.                                          *)
(***************************************************************************)
C10_Registered ==
    [manytoone |-> "ManytooneRelationField", onetomany |-> "OnetomanyRelationField",
     onetoone |-> "OnetooneRelationField", manytomany |-> "ManytomanyRelationField"]

C10_RelationsExempt ==
    (Created /\ fc.dtype \in RelationTypes
             /\ fc.config.renderer \in {"dropdown", "radio"}) =>
        /\ fc.exc = None
        /\ fc.final = fc.dtype
        /\ fc.built = C10_Registered[fc.dtype]

(***************************************************************************)
(* C11: under a checkbox renderer a non-relation effective type "string"   *)
(* or "integer" gives a multiselection field; every other non-relation     *)
(* type raises TypeError and no field is constructed.                      *)
(***************************************************************************)
C11_CheckboxIntegrity ==
    (Created /\ fc.config.renderer = "checkbox" /\ fc.dtype \notin RelationTypes) =>
        IF fc.dtype \in {"string", "integer"}
        THEN /\ fc.exc = None
             /\ fc.final = "multiselection"
             /\ fc.built = "MultiselectionField"
        ELSE /\ fc.exc = "TypeError"
             /\ fc.built = None

\* A checkbox over a date: the type conflict.
C11_Witness ==
    /\ Created
    /\ fc.config.renderer = "checkbox"
    /\ fc.dtype = "date"
    /\ fc.exc = "TypeError"


(***************************************************************************)
(* C20: in every state during and after the construction of a Form,        *)
(* whenever the initialized flag is true the cached mapping has been       *)
(* assigned, so that no call of get_fields takes the cached-return branch  *)
(* before the cache exists.                                                *)
(***************************************************************************)
C20_FlagImpliesCache == initialized => cache.set


(***************************************************************************)
(* C12: value coercion never raises past the field boundary; in            *)
(* particular, reading the previous value of a field whose previous_value  *)
(* is still absent returns normally.                                       *)
(***************************************************************************)
C12_FreshPreviousValueReturns ==
    (fld.op = "get_previous_value" /\ fld.previous_value = VNone) =>
        fld.exc = None

(***************************************************************************)
(* C13: for an integer-selection field, the external form of a list of     *)
(* integers is the bracketed string of its elements, "{1,2}" for [1,2].    *)
(***************************************************************************)
Bracketed(list) ==
    <<"{">> \o join([i \in DOMAIN list |-> decimal(list[i].n)], <<",">>) \o <<"}">>

C13_ListToBracketed ==
    (/\ fld.cls = "IntSelectionField"
     /\ fld.op = "get_value"
     /\ fld.value \in IntLists) =>
        /\ fld.logged = FALSE
        /\ fld.res = VStr(Bracketed(fld.value.l))

C15_Case ==
    /\ col.state = "filter_options"
    /\ col.renderer.exists /\ col.renderer.filter = VStr(FilterStatus)
    /\ col.item.exists
    /\ dict_get(col.item.attrs, KeyStatus, VNone) = VStr(TextActive)

C15_VisibleByOwnStatus ==
    C15_Case =>
        /\ col.exc = None
        /\ col.body = quoted(TextActive)
        /\ \A i \in DOMAIN col.res :
              col.res[i].visible =
                  (dict_get(col.source.val[i].attrs, KeyStatus, VNone) = VStr(TextActive))

(***************************************************************************)
(* C15 as the code has it: the rule is the literal 'active', which refers  *)
(* to no attribute of the options, so every option is evaluated on the     *)
(* same (empty) values and all options get the same visibility whatever    *)
(* their own status.                                                       *)
(***************************************************************************)
C15_SameVisibilityForAll ==
    C15_Case =>
        /\ col.exc = None
        /\ col.body = quoted(TextActive)
        /\ findall_refs(col.body) = <<>>
        /\ \A i, j \in DOMAIN col.res : col.res[i].visible = col.res[j].visible

C15_Witness ==
    /\ C15_Case
    /\ Len(col.res) = 2
    /\ dict_get(col.source.val[1].attrs, KeyStatus, VNone) = VStr(TextActive)
    /\ dict_get(col.source.val[2].attrs, KeyStatus, VNone) = VStr(TextInactive)
    /\ col.res[1].visible = col.res[2].visible

(***************************************************************************)
(* C16: for every collection field whose renderer has the sort flag set,   *)
(* get_options returns the options in the order of their labels,           *)
(* descending when sortorder is "desc".                                    *)
(***************************************************************************)
C16_SortedWhenFlagged ==
    (/\ col.state = "get_options"
     /\ col.exc = None
     /\ col.renderer.exists /\ col.renderer.sort) =>
        \A i, j \in DOMAIN col.res :
            i < j => IF col.renderer.sortorder = "desc"
                     THEN ~text_less(col.res[i].text, col.res[j].text)
                     ELSE ~text_less(col.res[j].text, col.res[i].text)

(***************************************************************************)
(* C17: when listing the options of a relation field fails (the storage    *)
(* or the filter raises), get_options does not raise, returns the empty    *)
(* list and logs an error.                                                 *)
(***************************************************************************)
C17_ListingFails ==
    /\ col.state = "get_options"
    /\ col.cls \in {"RelationField", "ManytooneRelationField"}
    /\ relation_query(col.renderer, col.item, col.user, col.source).exc # None

C17_EmptyOnFailure ==
    C17_ListingFails => (col.exc = None /\ col.logged /\ col.res = <<>>)

(***************************************************************************)
(* C17 as the code has it: get_options does not raise and logs an error;   *)
(* it returns no option of the storage: the empty list for a relation      *)
(* field, and the "no selection" entry alone for a many-to-one field.      *)
(***************************************************************************)
C17_NoStorageOptionOnFailure ==
    C17_ListingFails =>
        /\ col.exc = None
        /\ col.logged
        /\ col.res = IF col.cls = "ManytooneRelationField" THEN <<NoSelection>>
                     ELSE <<>>

C17_Witness ==
    /\ C17_ListingFails
    /\ col.cls = "ManytooneRelationField"
    /\ col.source.exc = "OperationalError"
    /\ col.res = <<NoSelection>>
    /\ col.logged

(***************************************************************************)
(* C18: the compiled rule is the filter text in which every token is       *)
(* replaced by the encoding of its own value and every other token is left *)
(* as written, also when a token is part of another token.                 *)
(***************************************************************************)
C18_Substituted(x, v) == IF v.has THEN encode(v.val) ELSE x
RECURSIVE C18_TokenByToken(_, _, _)
C18_TokenByToken(t, item, user) ==
    IF t = <<>> THEN <<>>
    ELSE C18_Substituted(Head(t), token_value(Head(t), item, user))
         \o (IF Tail(t) = <<>> THEN <<>>
             ELSE <<" ">> \o C18_TokenByToken(Tail(t), item, user))

C18_SubstitutesTokenByToken ==
    (col.state = "_build_filter_rule" /\ col.exc = None) =>
        col.body = C18_TokenByToken(split(col.renderer.filter.s, " "),
                                    col.item, col.user)

(***************************************************************************)
(* C19: when the default value "$name" cannot be read off the bound item   *)
(* (attribute or index error), the construction of the field does not      *)
(* raise and the value is None; an error is logged exactly when the item   *)
(* is there and has an id.                                                 *)
(***************************************************************************)
C19_FailedRead ==
    /\ fld.op = "__init__"
    /\ fld.config = VStr(TextAttr)
    /\ (~fld.item.exists \/ fld.item.read.exc \in {"AttributeError", "IndexError"})

C19_ErrorPolicy ==
    C19_FailedRead =>
        /\ fld.exc = None
        /\ fld.state = "field"
        /\ fld.value = VNone
        /\ fld.logged = (fld.item.exists /\ fld.item.id # VNone)

C19_Witness ==
    /\ C19_FailedRead
    /\ fld.item.exists /\ fld.item.id = VInt(1) /\ fld.item.read.exc = "IndexError"
    /\ fld.logged


(***************************************************************************)
(* C21: constructing a Form from a configuration whose entity ref chains   *)
(* and snippet reference graph are acyclic ends by returning a Form or by  *)
(* raising an error of the configuration, never by recursing until the     *)
(* interpreter's recursion limit, also when the ref of a snippet node      *)
(* names no snippet element.                                               *)
(***************************************************************************)
\* The elements of a list whose id is ref.
C21_Named(elems, ref) ==
    {j \in DOMAIN elems : Truthy(ref) /\ elems[j].id = ref}
\* Entity i redirects to entity j by its ref.
C21_EntityEdges(tree) ==
    {<<i, j>> \in (DOMAIN tree.entity) \X (DOMAIN tree.entity) :
        j \in C21_Named(tree.entity, tree.entity[i].ref)}
\* Snippet i refers to snippet j: by its own ref, or by a snippet node in it.
C21_SnippetEdges(tree) ==
    {<<i, j>> \in (DOMAIN tree.snippet) \X (DOMAIN tree.snippet) :
        \/ j \in C21_Named(tree.snippet, tree.snippet[i].ref)
        \/ \E sref \in Range(tree.snippet[i].snippets) :
              j \in C21_Named(tree.snippet, sref)}
RECURSIVE C21_Closure(_, _, _)
C21_Closure(edges, from, n) ==
    IF n = 0 THEN from
    ELSE C21_Closure(edges,
                     from \cup {e[2] : e \in {d \in edges : d[1] \in from}},
                     n - 1)
C21_AcyclicEdges(edges, nodes) ==
    \A i \in nodes :
        i \notin C21_Closure(edges, {e[2] : e \in {d \in edges : d[1] = i}},
                             Cardinality(nodes))
C21_Acyclic(tree) ==
    /\ C21_AcyclicEdges(C21_EntityEdges(tree), DOMAIN tree.entity)
    /\ C21_AcyclicEdges(C21_SnippetEdges(tree), DOMAIN tree.snippet)

C21_ConstructionTerminates ==
    C21_Acyclic(Doc0) => outcome # "RuntimeError"

=============================================================================
